---- MODULE Spec2Model ----
(***************************************************************************)
(* finance-fusion: password authentication with account lockout, and the   *)
(* session rows behind the bearer tokens.                                   *)
(*                                                                          *)
(* The store (PostgreSQL through diesel) is the users table and the         *)
(* sessions table.  Every diesel statement is one atomic request to the     *)
(* store; a request handler is a sequence of such requests, and handlers of *)
(* different requests interleave between them (each handler takes its own   *)
(* connection from the pool, no transaction is opened).                     *)
(*                                                                          *)
(* A handler holds an in-memory User (the row it loaded).  The login route  *)
(* loads a User and calls authenticate once; User::authenticate is a public *)
(* method on &mut self and may be called again on the same value, which is  *)
(* the only way the in-memory attempt counter reaches the lock threshold.   *)
(***************************************************************************)
EXTENDS Integers, FiniteSets, Sequences, TLC

\* ---------------------------------------------------------------- bounds
MaxTicks == 2
MaxSessions == 2
MaxAttempts == 4
MaxCalls == 4
MaxWrongs == 3
MaxTokens == 2

\* ------------------------------------------------------ program constants
LockThreshold == 3
DefaultLockDurationS == 60
DefaultLockDurationFactor == 2
DefaultLockDurationCapS == 3600
ResetLockDurationFactor == 3600
SessionTtlS == 86400
JwtLeewayS == 60

\* ------------------------------------------------------------ value sets
Users == {"alice", "bob"}
\* The usernames login requests are made for: one account, and a name with no row.
Usernames == {"alice", "carol"}
Passwords == {"pw-alice", "pw-bob"}
Procs == {"h1", "h2"}
\* The handler of the one-request-at-a-time specification.
SeqProcs == {"h1"}

\* Option::None of locked_until.
None == -1

\* The password each user registered with (pw_hash holds it unhashed).
PwHashOf(u) == IF u = "alice" THEN "pw-alice" ELSE "pw-bob"

NoUser ==
    [id |-> "none", pw_hash |-> "none", invalid_login_attempts |-> 0,
     lock_duration_s |-> 0, lock_duration_factor |-> 0,
     lock_duration_cap_s |-> 0, locked_until |-> None]

\* A users row as the insert of User::new leaves it: the column defaults.
NewUserRow(u) ==
    [id |-> u, pw_hash |-> PwHashOf(u), invalid_login_attempts |-> 0,
     lock_duration_s |-> DefaultLockDurationS,
     lock_duration_factor |-> DefaultLockDurationFactor,
     lock_duration_cap_s |-> DefaultLockDurationCapS,
     locked_until |-> None]

\* No call on users or plans has been made.
NoCall ==
    [op |-> "none", user_id |-> "none", name |-> "none", result |-> "none",
     user |-> NoUser, deleted |-> FALSE, list |-> <<>>]

NoSession == [id |-> 0, user_id |-> "none", expires_at |-> 0, created_at |-> 0]

VARIABLES
    now,        \* chrono::Utc::now(), in seconds
    ticks,      \* how often the clock has advanced
    users,      \* the users table: Users -> row
    sessions,   \* the sessions table: a set of rows
    nextId,     \* the sessions id sequence
    pc,         \* where each handler stands
    req,        \* the username and password a handler was given
    user,       \* the handler's in-memory User
    found,      \* the session row from_user_id has read
    result,     \* what the handler returned
    session,    \* the Session a handler returned
    calls,      \* authenticate calls made on the in-memory User
    before,     \* the in-memory User when authenticate was entered
    wrongs,     \* per user: wrong-password logins completed, -1 once anything else touched the user
    tokens,     \* the claims of the tokens that clients hold
    token,      \* the token a handler was given in the cookie
    run_pc,     \* where run stands: in its select!, returned, process exited
    server,     \* the REST server task
    chan,       \* the one-shot shutdown channel
    sig,        \* the signal the process has received
    plans,      \* the plans table: rows in insertion order
    out,        \* the last call on users or plans and what it returned
    lockouts,   \* per user: seconds the latest lockout since the last accepted password lasts, 0 if none
    value,      \* the NaiveDateTime given to serialize
    text,       \* the string serialize wrote
    parsed      \* what deserialize returned for that string

\* The variables of run and of the server task.
runvars == <<run_pc, server, chan, sig>>

\* The variables of the calls on users and plans.
adminvars == <<plans, out>>

\* The variables of the timestamp serialization.
timevars == <<value, text, parsed>>

vars == <<now, ticks, users, sessions, nextId, pc, req, user, found,
          result, session, calls, before, wrongs, tokens, token,
          runvars, adminvars, lockouts, timevars>>

Min(a, b) == IF a < b THEN a ELSE b

\* ------------------------------------------------------- User (pure part)

\* User::is_locked
is_locked(u) == u.locked_until # None

\* User::check_password: pw_hash == password
check_password(u, password) == u.pw_hash = password

\* User::unlock, its first two returns: nothing to do without a lock, and
\* `if locked_until < now { return Ok(()) }` returns with the User untouched.
\* Only past both returns does unlock clear the lock.
unlock_returns_early(u, t) ==
    \/ u.locked_until = None
    \/ u.locked_until < t

\* unlock without its `self.invalid_login_attempts = 0`.
unlocked_keeps_attempts(u) == [u EXCEPT !.locked_until = None]

\* User::unlock, "Unlock the account": the in-memory User after it.
unlocked(u) == [u EXCEPT !.locked_until = None, !.invalid_login_attempts = 0]

\* A 32-bit word as its two 16-bit halves <<high, low>>.
word(x) == <<x \div 65536, x % 65536>>

\* Addition of 32-bit words, modulo 2^32.
add_word(x, y) ==
    LET lo == x[2] + y[2]
        hi == x[1] + y[1] + lo \div 65536
    IN  <<hi % 65536, lo % 65536>>

\* Multiplication of a 32-bit word by b >= 0, modulo 2^32.
RECURSIVE mul_word(_, _)
mul_word(x, b) ==
    IF b = 0 THEN <<0, 0>>
    ELSE LET rest == mul_word(add_word(x, x), b \div 2)
         IN  IF b % 2 = 1 THEN add_word(x, rest) ELSE rest

\* The i32 a 32-bit word stands for (two's complement).
as_i32(x) ==
    IF x[1] >= 32768 THEN (x[1] - 65536) * 65536 + x[2]
    ELSE x[1] * 65536 + x[2]

\* a * b in i32 without overflow checks (a, b >= 0): the product wraps.
wrapping_mul(a, b) == as_i32(mul_word(word(a), b))

\* User::lock: whether `self.lock_duration_s * self.lock_duration_factor`
\* overflows i32, for fields that are not negative.
mul_overflows(u) ==
    /\ u.lock_duration_s > 0
    /\ u.lock_duration_factor > 2147483647 \div u.lock_duration_s

\* What an overflowing i32 multiplication does depends on the build: with
\* overflow checks it panics, without them it wraps.
MulPanics(u) == IF mul_overflows(u) THEN {FALSE, TRUE} ELSE {FALSE}

\* lock without its `.min(self.lock_duration_cap_s)`.
lock_duration_uncapped(u) ==
    wrapping_mul(u.lock_duration_s, u.lock_duration_factor)

\* User::lock: min(lock_duration_s * lock_duration_factor, lock_duration_cap_s)
\* in i32, when the multiplication has not panicked.
lock_duration(u) ==
    Min(wrapping_mul(u.lock_duration_s, u.lock_duration_factor),
        u.lock_duration_cap_s)

\* The clock's small step: the lock duration of a new user, in seconds.
TickS == lock_duration(NewUserRow("alice"))

\* User::lock: the in-memory User after it, at time t.
locked(u, t) == [u EXCEPT !.locked_until = t + lock_duration(u)]

\* User::increment_invalid_login_attempts, its first statement.
incremented(u) == [u EXCEPT !.invalid_login_attempts = @ + 1]

\* User::increment_invalid_login_attempts: whether it goes on to lock.
must_lock(u) == u.invalid_login_attempts >= LockThreshold

\* reset_invalid_login_attempts without its `self.invalid_login_attempts = 0`.
reset_keeps_attempts(u) ==
    [u EXCEPT !.lock_duration_factor = ResetLockDurationFactor]

\* User::reset_invalid_login_attempts: the in-memory User after it.
reset(u) ==
    [u EXCEPT !.invalid_login_attempts = 0,
              !.lock_duration_factor = ResetLockDurationFactor]

\* User::save_changes: UPDATE users SET <changeset of self> WHERE id = self.id.
\* The changeset is the derived AsChangeset of User, which has no
\* treat_none_as_null: a None field is left out of the SET list, so a
\* locked_until of None leaves the stored locked_until as it is.
save_changes(tbl, u) ==
    [tbl EXCEPT ![u.id] =
        [id |-> u.id, pw_hash |-> u.pw_hash,
         invalid_login_attempts |-> u.invalid_login_attempts,
         lock_duration_s |-> u.lock_duration_s,
         lock_duration_factor |-> u.lock_duration_factor,
         lock_duration_cap_s |-> u.lock_duration_cap_s,
         locked_until |-> IF u.locked_until = None
                          THEN tbl[u.id].locked_until
                          ELSE u.locked_until]]

\* ------------------------------------------------------------- Session

\* Session::new without its `+ chrono::Duration::days(1)`.
NewSessionRow_no_ttl(id, user_id, t) ==
    [id |-> id, user_id |-> user_id, expires_at |-> t, created_at |-> t]

\* Session::new: the row its insert adds (created_at is the column default).
NewSessionRow(id, user_id, t) ==
    [id |-> id, user_id |-> user_id, expires_at |-> t + SessionTtlS,
     created_at |-> t]

\* Session::from_user_id: the rows its filter matches.
SessionsOf(user_id) == {s \in sessions : s.user_id = user_id}

\* from_user_id without its expiry test.
unexpired_always(s, t) == TRUE

\* Session::from_user_id: `now < session.expires_at`.
unexpired(s, t) == t < s.expires_at

\* ------------------------------------------------------ Claims and tokens

\* Claims::from(session) at time t.
ClaimsFrom(s, t) ==
    [user_id |-> s.user_id, exp |-> s.expires_at, iat |-> t, nbf |-> t]

\* A token is its claims and whether its signature verifies under the
\* secret of Session::get_secret.  Session::token signs the claims.
Signed(c) ==
    [user_id |-> c.user_id, exp |-> c.exp, iat |-> c.iat, nbf |-> c.nbf,
     sig |-> TRUE]

\* The same claims in a token whose signature does not verify.
Tampered(c) ==
    [user_id |-> c.user_id, exp |-> c.exp, iat |-> c.iat, nbf |-> c.nbf,
     sig |-> FALSE]

\* No token cookie.
NoToken == [user_id |-> "none", exp |-> 0, iat |-> 0, nbf |-> 0, sig |-> FALSE]

\* The tokens a request can carry: a token a client holds, the same with a
\* broken signature, or with its expiry pushed a day ahead by the sender.
Presentable ==
    {Signed(c) : c \in tokens}
    \cup {Tampered(c) : c \in tokens}
    \cup {Tampered([c EXCEPT !.exp = @ + SessionTtlS]) : c \in tokens}

\* jsonwebtoken::decode with every check but the signature's.
decode_ignores_signature(tok, t) == tok.exp >= t - JwtLeewayS

\* jsonwebtoken::decode under Validation::default(): the signature
\* verifies and exp is not more than the leeway in the past (nbf is not
\* validated by default).
decode(tok, t) == tok.sig /\ tok.exp >= t - JwtLeewayS

\* A lookup that ignores whose session is asked for.
UserIdOf_fixed(p) == "alice"

\* The user_id from_user_id is called with: self.id in authenticate,
\* claims.user_id in from_token.
UserIdOf(p) == IF token[p] # NoToken THEN token[p].user_id ELSE user[p].id

\* -------------------------------------------------------------- errors

\* AppError::Diesel(e) of a query: e is the failure of the request when the
\* store did not answer, and diesel's NotFound when first() found no row.
DieselErr(ok) == IF ok THEN "DieselNotFound" ELSE "DieselError"

\* The results that are an AppError::Diesel.
StoreErrors == {"DieselError", "DieselNotFound"}

\* Display of the diesel error inside AppError::Diesel: diesel's own text
\* for NotFound, and for a failed query the message the database sent.
DieselText(r) ==
    IF r = "DieselNotFound" THEN "Record not found"
    ELSE "<raw database error text>"

\* AppError's Display (thiserror): #[error("{0}")] on Diesel and on
\* Authenticate prints the inner error, AuthenticateError has fixed texts.
to_string(r) ==
    CASE r \in StoreErrors -> DieselText(r)
      [] r = "WrongCredentials" -> "Wrong authentication credentials"
      [] r = "InvalidToken" -> "Invalid authentication credentials"
      [] r = "Locked" -> "User is locked"

\* AppError::get_codes: HTTP status and application code.
get_codes(r) ==
    CASE r \in StoreErrors -> <<500, 5002>>
      [] r = "WrongCredentials" -> <<401, 40004>>
      [] r = "InvalidToken" -> <<401, 40005>>
      [] r = "Locked" -> <<423, 40006>>

\* IntoResponse for AppError: the status and the JSON body
\* {"code": code, "message": self.to_string()}.
into_response(r) ==
    [status |-> get_codes(r)[1],
     body |-> [code |-> get_codes(r)[2], message |-> to_string(r)]]

\* --------------------------------------------------------------- history

\* A handler between its first store request and its return.
InFlight(q) == pc[q] \notin {"idle", "done"}

\* The request of handler p ends with result r: a wrong-password login
\* (one authenticate call on a freshly loaded User) that returned
\* WrongCredentials is counted, anything else ends the count for the user.
Finished(p, r) ==
    LET u == user[p].id IN
    wrongs' =
        IF u \notin Users THEN wrongs
        ELSE [wrongs EXCEPT ![u] =
                IF r = "WrongCredentials" /\ calls[p] = 1
                   /\ @ >= 0 /\ @ < MaxWrongs
                THEN @ + 1 ELSE -1]

\* ------------------------------------------------- utils::serialization
\* A chrono::NaiveDateTime: a proleptic Gregorian date and a time of day.
\* A text is a sequence of characters.

\* No NaiveDateTime has been given.
NoDateTime ==
    [year |-> 0, month |-> 0, day |-> 0,
     hour |-> 0, minute |-> 0, second |-> 0, nanosecond |-> 0]

is_leap_year(y) == (y % 4 = 0 /\ y % 100 # 0) \/ y % 400 = 0

days_in_month(y, m) ==
    IF m = 2 THEN (IF is_leap_year(y) THEN 29 ELSE 28)
    ELSE IF m \in {4, 6, 9, 11} THEN 30 ELSE 31

\* The values a NaiveDateTime can take (NaiveDate::from_ymd_opt and
\* and_hms_opt return None outside these ranges).
is_date_time(t) ==
    /\ t.month \in 1..12
    /\ t.day \in 1..days_in_month(t.year, t.month)
    /\ t.hour \in 0..23
    /\ t.minute \in 0..59
    /\ t.second \in 0..59
    /\ t.nanosecond \in 0..999999999

\* The timestamps the functions are applied to: years of one to five
\* digits on both sides of 0 and of 9999, a leap day, the ends of the
\* day, and a value with a fraction of a second.
Years == {0 - 1, 0, 2021, 2024, 9999, 10000}
Months == {1, 2, 12}
Days == {1, 29, 31}
Hours == {0, 23}
Minutes == {0, 59}
Seconds == {0, 59}
Nanoseconds == {0, 500000000}

DateTimes ==
    {t \in [year : Years, month : Months, day : Days, hour : Hours,
            minute : Minutes, second : Seconds, nanosecond : Nanoseconds] :
        is_date_time(t)}

Digit == <<"0", "1", "2", "3", "4", "5", "6", "7", "8", "9">>

is_digit(c) == \E d \in 0..9 : Digit[d + 1] = c

digit_value(c) == CHOOSE d \in 0..9 : Digit[d + 1] = c

\* The decimal digits of n >= 0.
RECURSIVE digits(_)
digits(n) ==
    IF n < 10 THEN <<Digit[n + 1]>>
    ELSE digits(n \div 10) \o <<Digit[(n % 10) + 1]>>

RECURSIVE zeros(_)
zeros(k) == IF k <= 0 THEN <<>> ELSE <<"0">> \o zeros(k - 1)

\* A number written without padding.
write_unpadded(n, width) == digits(n)

\* "{:0width$}": n >= 0 written with zeros in front up to width.
write_padded(n, width) == zeros(width - Len(digits(n))) \o digits(n)

\* %Y: four digits for the years 0..9999; any other year is written
\* with its sign and at least four digits.
write_year(y) ==
    IF y \in 0..9999 THEN write_padded(y, 4)
    ELSE IF y < 0 THEN <<"-">> \o write_padded(0 - y, 4)
    ELSE <<"+">> \o write_padded(y, 4)

\* value.format("%Y-%m-%d %H:%M:%S").to_string(): the fraction of a
\* second is not written.
format(t) ==
    write_year(t.year) \o <<"-">> \o write_padded(t.month, 2) \o <<"-">>
        \o write_padded(t.day, 2) \o <<" ">> \o write_padded(t.hour, 2)
        \o <<":">> \o write_padded(t.minute, 2) \o <<":">>
        \o write_padded(t.second, 2)

\* serialize: the formatted text is handed to the serializer as a string.
serialize(t) == format(t)

RECURSIVE number_value(_)
number_value(ds) ==
    IF ds = <<>> THEN 0
    ELSE number_value(SubSeq(ds, 1, Len(ds) - 1)) * 10
            + digit_value(ds[Len(ds)])

\* scan::number: the number made of the leading digits of s, at least
\* min and at most max of them.
number(s, min, max) ==
    LET top == Min(max, Len(s))
        k == CHOOSE n \in 0..top :
                /\ \A i \in 1..n : is_digit(s[i])
                /\ n = top \/ ~is_digit(s[n + 1])
    IN  [ok |-> k >= min,
         value |-> number_value(SubSeq(s, 1, k)),
         rest |-> SubSeq(s, k + 1, Len(s))]

\* The parser before anything was read from s.
parsing(s) == [ok |-> TRUE, rest |-> s, set |-> NoDateTime]

\* A numeric item of the format string other than the year: one to
\* width digits, unsigned.
numeric(st, name, width) ==
    IF ~st.ok THEN st
    ELSE LET n == number(st.rest, 1, width) IN
         [ok |-> n.ok, rest |-> n.rest,
          set |-> [st.set EXCEPT ![name] = n.value]]

\* %Y: with a sign any number of digits, without a sign at most four.
numeric_year(st) ==
    IF ~st.ok THEN st
    ELSE IF st.rest # <<>> /\ st.rest[1] \in {"-", "+"}
    THEN LET n == number(Tail(st.rest), 1, Len(st.rest)) IN
         [ok |-> n.ok, rest |-> n.rest,
          set |-> [st.set EXCEPT
                     !.year = IF st.rest[1] = "-" THEN 0 - n.value
                              ELSE n.value]]
    ELSE numeric(st, "year", 4)

\* A literal character of the format string.
literal(st, c) ==
    IF ~st.ok THEN st
    ELSE IF st.rest # <<>> /\ st.rest[1] = c
    THEN [st EXCEPT !.rest = Tail(st.rest)]
    ELSE [st EXCEPT !.ok = FALSE]

\* What a parse returns: Ok with the NaiveDateTime, or Err; "none" while
\* nothing was parsed.
NotParsed == [state |-> "none", value |-> NoDateTime]
ParseError == [state |-> "Err", value |-> NoDateTime]

\* NaiveDateTime::parse_from_str(&s, "%Y-%m-%d %H:%M:%S"): the items in
\* turn, nothing left over, and the fields form a date and a time.
parse_from_str(s) ==
    LET y == numeric_year(parsing(s))
        m == numeric(literal(y, "-"), "month", 2)
        d == numeric(literal(m, "-"), "day", 2)
        h == numeric(literal(d, " "), "hour", 2)
        mi == numeric(literal(h, ":"), "minute", 2)
        se == numeric(literal(mi, ":"), "second", 2)
    IN  IF se.ok /\ se.rest = <<>> /\ is_date_time(se.set)
        THEN [state |-> "Ok", value |-> se.set]
        ELSE ParseError

\* deserialize: the string is read and parsed; a parse error is mapped
\* to the deserializer's error.
deserialize(s) == parse_from_str(s)

\* The store holds the users rows tbl and the session rows ss, clients hold
\* the tokens with the claims toks; no request is being handled.
InitCore(tbl, ss, toks) ==
    /\ now = 0
    /\ ticks = 0
    /\ users = tbl
    /\ sessions = ss
    /\ nextId = 1
    /\ pc = [p \in Procs |-> "idle"]
    /\ req = [p \in Procs |-> [username |-> "none", password |-> "none"]]
    /\ user = [p \in Procs |-> NoUser]
    /\ found = [p \in Procs |-> NoSession]
    /\ result = [p \in Procs |-> "none"]
    /\ session = [p \in Procs |-> NoSession]
    /\ calls = [p \in Procs |-> 0]
    /\ before = [p \in Procs |-> NoUser]
    /\ wrongs = [u \in Users |-> 0]
    /\ tokens = toks
    /\ token = [p \in Procs |-> NoToken]
    /\ run_pc = "select"
    /\ server = "starting"
    /\ chan = "open"
    /\ sig = "none"
    /\ plans = <<>>
    /\ out = NoCall
    /\ lockouts = [u \in Users |-> 0]

\* The same, and no timestamp has been given to serialize.
InitAll(tbl, ss, toks) ==
    /\ InitCore(tbl, ss, toks)
    /\ value = NoDateTime
    /\ text = <<>>
    /\ parsed = NotParsed

\* The store holds the users rows tbl and the session rows ss; no request
\* is being handled.
InitStore(tbl, ss) == InitAll(tbl, ss, {})

\* The store holds the registered users with the column defaults and the
\* session rows ss.
InitWith(ss) == InitStore([u \in Users |-> NewUserRow(u)], ss)

\* No session has been created yet.
Init == InitWith({})

\* A session row that alice's login of the day before left in the store:
\* Session::new never deletes the rows of earlier logins.
OldSessionRow == NewSessionRow(0, "alice", 0 - SessionTtlS)

\* The store with or without the session row of an earlier day.
InitConc == \E ss \in {{}, {OldSessionRow}} : InitWith(ss)

\* ------------------------------------------------------------- the clock

\* Time passes while requests are being handled.
Tick ==
    /\ ticks < MaxTicks
    /\ now' = now + TickS
    /\ ticks' = ticks + 1
    /\ UNCHANGED <<timevars, runvars, adminvars, lockouts, tokens, token, users, sessions, nextId, pc, req, user, found,
                   result, session, calls, before, wrongs>>

\* A day passes; no request takes that long, so none is in flight.
DayPasses ==
    /\ ticks < MaxTicks
    /\ \A p \in Procs : ~InFlight(p)
    /\ now' = now + SessionTtlS
    /\ ticks' = ticks + 1
    /\ UNCHANGED <<timevars, runvars, adminvars, lockouts, tokens, token, users, sessions, nextId, pc, req, user, found,
                   result, session, calls, before, wrongs>>

\* -------------------------------------------------------- the login route

\* Every store request either succeeds or fails (ok): a failed request
\* changes nothing in the store and the statement returns its diesel error.

\* login: User::from_username(&mut conn, &info.username)?  and the entry of
\* user.authenticate(&mut conn, &info.password).
FromUsername(p) ==
    /\ pc[p] = "idle"
    /\ \E name \in Usernames, password \in Passwords, ok \in BOOLEAN :
        /\ req' = [req EXCEPT ![p] = [username |-> name, password |-> password]]
        /\ IF ok /\ name \in Users
           THEN /\ users[name].invalid_login_attempts < MaxAttempts
                /\ user' = [user EXCEPT ![p] = users[name]]
                /\ before' = [before EXCEPT ![p] = users[name]]
                /\ calls' = [calls EXCEPT ![p] = 1]
                /\ pc' = [pc EXCEPT ![p] = "lockcheck"]
                /\ wrongs' = [wrongs EXCEPT ![name] =
                                IF check_password(users[name], password) THEN -1 ELSE @]
                /\ UNCHANGED result
           ELSE \* the query failed, or first() found no row: Err(AppError::Diesel(e))
                /\ result' = [result EXCEPT ![p] = DieselErr(ok)]
                /\ pc' = [pc EXCEPT ![p] = "done"]
                /\ UNCHANGED <<user, before, calls, wrongs>>
    /\ UNCHANGED <<timevars, runvars, adminvars, lockouts, tokens, token, now, ticks, users, sessions, nextId, found, session>>

\* authenticate called once more on the same in-memory User.
AuthenticateAgain(p) ==
    /\ pc[p] = "done"
    /\ user[p] # NoUser
    /\ calls[p] < MaxCalls
    /\ user[p].invalid_login_attempts < MaxAttempts
    /\ \E password \in Passwords :
        req' = [req EXCEPT ![p].password = password]
    /\ calls' = [calls EXCEPT ![p] = @ + 1]
    /\ before' = [before EXCEPT ![p] = user[p]]
    /\ pc' = [pc EXCEPT ![p] = "lockcheck"]
    /\ result' = [result EXCEPT ![p] = "none"]
    /\ session' = [session EXCEPT ![p] = NoSession]
    /\ found' = [found EXCEPT ![p] = NoSession]
    /\ wrongs' = [wrongs EXCEPT ![user[p].id] = -1]
    /\ UNCHANGED <<timevars, runvars, adminvars, lockouts, tokens, token, now, ticks, users, sessions, nextId, user>>

\* authenticate: `if self.is_locked() && self.unlock(conn).is_err()`, when
\* unlock returns early: nothing is written and the credential check follows.
LockCheckPass(p) ==
    /\ pc[p] = "lockcheck"
    /\ ~is_locked(user[p]) \/ unlock_returns_early(user[p], now)
    /\ pc' = [pc EXCEPT ![p] = "cred"]
    /\ UNCHANGED <<timevars, runvars, adminvars, lockouts, tokens, token, now, ticks, users, sessions, nextId, req, user, found,
                   result, session, calls, before, wrongs>>

\* authenticate: the same condition when unlock goes on to clear the lock
\* and save; only a failed save makes authenticate return Locked.
LockCheckUnlock(p) ==
    /\ pc[p] = "lockcheck"
    /\ is_locked(user[p]) /\ ~unlock_returns_early(user[p], now)
    /\ user' = [user EXCEPT ![p] = unlocked(@)]
    /\ \E ok \in BOOLEAN :
        IF ok
        THEN /\ users' = save_changes(users, unlocked(user[p]))
             /\ pc' = [pc EXCEPT ![p] = "cred"]
             /\ UNCHANGED <<result, wrongs>>
        ELSE /\ result' = [result EXCEPT ![p] = "Locked"]
             /\ pc' = [pc EXCEPT ![p] = "done"]
             /\ Finished(p, "Locked")
             /\ UNCHANGED users
    /\ UNCHANGED <<timevars, runvars, adminvars, lockouts, tokens, token, now, ticks, sessions, nextId, req, found, session, calls,
                   before>>

\* authenticate: the wrong-password branch,
\* self.increment_invalid_login_attempts(conn)? and Err(WrongCredentials).
\* Below the threshold increment_invalid_login_attempts returns Ok(()) with
\* no save_changes; at the threshold lock() saves, unless its multiplication
\* panics.
WrongPassword(p) ==
    /\ pc[p] = "cred"
    /\ ~check_password(user[p], req[p].password)
    /\ LET u1 == incremented(user[p]) IN
       IF must_lock(u1)
       THEN \E panics \in MulPanics(u1), ok \in BOOLEAN :
                IF panics
                THEN /\ user' = [user EXCEPT ![p] = u1]
                     /\ result' = [result EXCEPT ![p] = "Panic"]
                     /\ Finished(p, "Panic")
                     /\ UNCHANGED <<users, lockouts>>
                ELSE /\ user' = [user EXCEPT ![p] = locked(u1, now)]
                     /\ lockouts' = [lockouts EXCEPT ![u1.id] =
                                        locked(u1, now).locked_until - now]
                     /\ IF ok
                        THEN /\ users' = save_changes(users, locked(u1, now))
                             /\ result' = [result EXCEPT ![p] = "WrongCredentials"]
                             /\ Finished(p, "WrongCredentials")
                        ELSE /\ result' = [result EXCEPT ![p] = "DieselError"]
                             /\ Finished(p, "DieselError")
                             /\ UNCHANGED users
       ELSE /\ user' = [user EXCEPT ![p] = u1]
            /\ result' = [result EXCEPT ![p] = "WrongCredentials"]
            /\ Finished(p, "WrongCredentials")
            /\ UNCHANGED <<users, lockouts>>
    /\ pc' = [pc EXCEPT ![p] = "done"]
    /\ UNCHANGED <<timevars, runvars, adminvars, tokens, token, now, ticks, sessions, nextId, req, found, session, calls,
                   before>>

\* authenticate: the right-password branch up to Session::new,
\* self.reset_invalid_login_attempts(conn)?.
RightPassword(p) ==
    /\ pc[p] = "cred"
    /\ check_password(user[p], req[p].password)
    /\ user' = [user EXCEPT ![p] = reset(@)]
    /\ lockouts' = [lockouts EXCEPT ![user[p].id] = 0]
    /\ \E ok \in BOOLEAN :
        IF ok
        THEN /\ users' = save_changes(users, reset(user[p]))
             /\ pc' = [pc EXCEPT ![p] = "insert"]
             /\ UNCHANGED <<result, wrongs>>
        ELSE /\ result' = [result EXCEPT ![p] = "DieselError"]
             /\ pc' = [pc EXCEPT ![p] = "done"]
             /\ Finished(p, "DieselError")
             /\ UNCHANGED users
    /\ UNCHANGED <<timevars, runvars, adminvars, tokens, token, now, ticks, sessions, nextId, req, found, session, calls,
                   before>>

\* Session::new: diesel::insert_into(sessions::table).
SessionInsert(p) ==
    /\ pc[p] = "insert"
    /\ \E ok \in BOOLEAN :
        IF ok
        THEN /\ nextId <= MaxSessions
             /\ sessions' = sessions \cup {NewSessionRow(nextId, user[p].id, now)}
             /\ nextId' = nextId + 1
             /\ pc' = [pc EXCEPT ![p] = "select"]
             /\ UNCHANGED <<result, wrongs>>
        ELSE /\ result' = [result EXCEPT ![p] = "DieselError"]
             /\ pc' = [pc EXCEPT ![p] = "done"]
             /\ Finished(p, "DieselError")
             /\ UNCHANGED <<sessions, nextId>>
    /\ UNCHANGED <<timevars, runvars, adminvars, lockouts, tokens, token, now, ticks, users, req, user, found, session, calls,
                   before>>

\* Session::from_user_id: the query.  first() runs with no ORDER BY, so
\* which of the user's rows it returns is for the store to choose; with no
\* row, or a failed query, it is Err(AppError::Diesel).  Then the expiry test.
SessionSelect(p) ==
    /\ pc[p] = "select"
    /\ \E ok \in BOOLEAN :
        IF ok /\ SessionsOf(UserIdOf(p)) # {}
        THEN \E s \in SessionsOf(UserIdOf(p)) :
               IF unexpired(s, now)
               THEN /\ session' = [session EXCEPT ![p] = s]
                    /\ result' = [result EXCEPT ![p] = "Ok"]
                    /\ pc' = [pc EXCEPT ![p] = "done"]
                    /\ Finished(p, "Ok")
                    /\ UNCHANGED found
               ELSE /\ found' = [found EXCEPT ![p] = s]
                    /\ pc' = [pc EXCEPT ![p] = "delete"]
                    /\ UNCHANGED <<session, result, wrongs>>
        ELSE /\ result' = [result EXCEPT ![p] = DieselErr(ok)]
             /\ pc' = [pc EXCEPT ![p] = "done"]
             /\ Finished(p, DieselErr(ok))
             /\ UNCHANGED <<session, found>>
    /\ UNCHANGED <<timevars, runvars, adminvars, lockouts, tokens, token, now, ticks, users, sessions, nextId, req, user, calls,
                   before>>

\* A delete that reports an error when no row has the id.
session_delete_strict(ss, s) ==
    [rows |-> {x \in ss : x.id # s.id},
     result |-> IF \E x \in ss : x.id = s.id THEN "Ok"
                ELSE "DieselNotFound"]

\* Session::delete, answered by the store:
\* diesel::delete(sessions.filter(id.eq(self.id))).execute(conn) is Ok for
\* any number of rows deleted, none included.
session_delete(ss, s) ==
    [rows |-> {x \in ss : x.id # s.id}, result |-> "Ok"]

\* Session::from_user_id: session.delete(conn)? and Err(SessionExpired).
\* A DELETE that matches no row is still Ok.
SessionDelete(p) ==
    /\ pc[p] = "delete"
    /\ \E ok \in BOOLEAN :
        IF ok
        THEN LET d == session_delete(sessions, found[p])
                 r == IF d.result = "Ok" THEN "SessionExpired" ELSE d.result
             IN  /\ sessions' = d.rows
                 /\ result' = [result EXCEPT ![p] = r]
                 /\ Finished(p, r)
        ELSE /\ result' = [result EXCEPT ![p] = "DieselError"]
             /\ Finished(p, "DieselError")
             /\ UNCHANGED sessions
    /\ pc' = [pc EXCEPT ![p] = "done"]
    /\ UNCHANGED <<timevars, runvars, adminvars, lockouts, tokens, token, now, ticks, users, nextId, req, user, found, session,
                   calls, before>>

\* The handler returns its response and its User is dropped.
Return(p) ==
    /\ pc[p] \in {"done", "replied"}
    /\ pc' = [pc EXCEPT ![p] = "idle"]
    /\ req' = [req EXCEPT ![p] = [username |-> "none", password |-> "none"]]
    /\ user' = [user EXCEPT ![p] = NoUser]
    /\ found' = [found EXCEPT ![p] = NoSession]
    /\ result' = [result EXCEPT ![p] = "none"]
    /\ session' = [session EXCEPT ![p] = NoSession]
    /\ calls' = [calls EXCEPT ![p] = 0]
    /\ before' = [before EXCEPT ![p] = NoUser]
    /\ token' = [token EXCEPT ![p] = NoToken]
    /\ UNCHANGED <<timevars, runvars, adminvars, lockouts, tokens, now, ticks, users, sessions, nextId, wrongs>>

\* One step of handler p.
Handler(p) ==
    \/ FromUsername(p)
    \/ AuthenticateAgain(p)
    \/ LockCheckPass(p)
    \/ LockCheckUnlock(p)
    \/ WrongPassword(p)
    \/ RightPassword(p)
    \/ SessionInsert(p)
    \/ SessionSelect(p)
    \/ SessionDelete(p)
    \/ Return(p)

\* Requests one at a time, and the clock.
Next ==
    \/ Tick
    \/ DayPasses
    \/ \E p \in SeqProcs : Handler(p)

Spec == Init /\ [][Next]_vars

\* Two handlers whose store requests interleave, at one instant.
NextConc == \E p \in Procs : Handler(p)

SpecConc == InitConc /\ [][NextConc]_vars


\* ------------------------------------------- tokens: the routes as a whole

\* login: session.token()? and the Ok response with the token cookie; the
\* client keeps the token.  The response follows authenticate at once: no
\* day has passed since the session was read.
SendToken(p) ==
    /\ pc[p] = "done"
    /\ result[p] = "Ok"
    /\ token[p] = NoToken
    /\ calls[p] = 1
    /\ unexpired(session[p], now)
    /\ Cardinality(tokens \cup {ClaimsFrom(session[p], now)}) <= MaxTokens
    /\ tokens' = tokens \cup {ClaimsFrom(session[p], now)}
    /\ pc' = [pc EXCEPT ![p] = "idle"]
    /\ req' = [req EXCEPT ![p] = [username |-> "none", password |-> "none"]]
    /\ user' = [user EXCEPT ![p] = NoUser]
    /\ found' = [found EXCEPT ![p] = NoSession]
    /\ result' = [result EXCEPT ![p] = "none"]
    /\ session' = [session EXCEPT ![p] = NoSession]
    /\ calls' = [calls EXCEPT ![p] = 0]
    /\ before' = [before EXCEPT ![p] = NoUser]
    /\ UNCHANGED <<timevars, runvars, adminvars, lockouts, token, now, ticks, users, sessions, nextId, wrongs>>

\* jwt_auth: Session::from_token on the token of the cookie, up to its
\* store lookup.  jsonwebtoken::decode comes first and touches no store:
\* when it fails from_token returns InvalidToken; otherwise
\* Session::from_user_id(conn, claims.user_id) follows.
FromToken(p) ==
    /\ pc[p] = "idle"
    /\ \E tok \in Presentable :
        /\ token' = [token EXCEPT ![p] = tok]
        /\ IF decode(tok, now)
           THEN /\ pc' = [pc EXCEPT ![p] = "select"]
                /\ UNCHANGED result
           ELSE /\ pc' = [pc EXCEPT ![p] = "done"]
                /\ result' = [result EXCEPT ![p] = "InvalidToken"]
    /\ UNCHANGED <<timevars, runvars, adminvars, lockouts, tokens, now, ticks, users, sessions, nextId, req, user,
                   found, session, calls, before, wrongs>>

\* A middleware that runs the route whatever from_token returned.
Logout_unguarded(p) ==
    /\ pc[p] = "done"
    /\ token[p] # NoToken
    /\ result' = [result EXCEPT ![p] = "LoggedOut"]
    /\ UNCHANGED <<timevars, runvars, adminvars, lockouts, tokens, token, now, ticks, users, sessions, nextId, pc,
                   req, user, found, session, calls, before, wrongs>>

\* GET /auth/logout behind jwt_auth: once the token validated, logout()
\* returns "Logged out" and touches nothing.
Logout(p) ==
    /\ pc[p] = "done"
    /\ token[p] # NoToken
    /\ result[p] = "Ok"
    /\ result' = [result EXCEPT ![p] = "LoggedOut"]
    /\ UNCHANGED <<timevars, runvars, adminvars, lockouts, tokens, token, now, ticks, users, sessions, nextId, pc,
                   req, user, found, session, calls, before, wrongs>>

\* jwt_auth: `if let Ok(session) = Session::from_token(..)` runs the route;
\* on every Err of from_token control falls through to the final
\* Err(InvalidToken), which is the reply (pc "replied": the middleware has
\* answered in place of the route).
Reject(p) ==
    /\ pc[p] = "done"
    /\ token[p] # NoToken
    /\ result[p] \notin {"Ok", "LoggedOut", "InvalidToken"}
    /\ result' = [result EXCEPT ![p] = "InvalidToken"]
    /\ pc' = [pc EXCEPT ![p] = "replied"]
    /\ UNCHANGED <<timevars, runvars, adminvars, lockouts, tokens, token, now, ticks, users, sessions, nextId,
                   req, user, found, session, calls, before, wrongs>>

\* jwt_auth on a request with no `token=` cookie: from_token is not
\* called and the reply is Err(InvalidToken).
NoCookie(p) ==
    /\ pc[p] = "idle"
    /\ result' = [result EXCEPT ![p] = "InvalidToken"]
    /\ pc' = [pc EXCEPT ![p] = "replied"]
    /\ UNCHANGED <<timevars, runvars, adminvars, lockouts, tokens, token, now, ticks,
                   users, sessions, nextId, req, user, found, session, calls,
                   before, wrongs>>

\* One step of a request to a route: POST /auth/login, or a request with a
\* token cookie.  From the rows of Init no login request leaves a user
\* locked, so unlock's clearing branch is not among the steps.
Route(p) ==
    \/ FromUsername(p)
    \/ LockCheckPass(p)
    \/ WrongPassword(p)
    \/ RightPassword(p)
    \/ SessionInsert(p)
    \/ SessionSelect(p)
    \/ SessionDelete(p)
    \/ SendToken(p)
    \/ FromToken(p)
    \/ Logout(p)
    \/ Reject(p)
    \/ NoCookie(p)
    \/ Return(p)

\* Requests to the routes one at a time, and the clock.
NextTok ==
    \/ Tick
    \/ DayPasses
    \/ \E p \in SeqProcs : Route(p)

SpecTok == Init /\ [][NextTok]_vars


\* -------------------------------------------- the lockout fields at large

\* Values of the i32 lockout columns of a users row.
LockDurations == {0, 60, 65536}
LockFactors == {2, 3600, 32768}
LockCaps == {0, 3600}
StoredAttempts == {0, 2}

\* alice's row holds any of these values; the rest is as in Init.
InitLock ==
    \E a \in StoredAttempts, d \in LockDurations, f \in LockFactors,
       c \in LockCaps :
        InitStore([u \in Users |->
                     IF u = "alice"
                     THEN [NewUserRow(u) EXCEPT !.invalid_login_attempts = a,
                                                !.lock_duration_s = d,
                                                !.lock_duration_factor = f,
                                                !.lock_duration_cap_s = c]
                     ELSE NewUserRow(u)],
                  {})

\* One step of authenticate on a User, at one instant (no session expires).
LockStep(p) ==
    \/ FromUsername(p)
    \/ AuthenticateAgain(p)
    \/ LockCheckPass(p)
    \/ LockCheckUnlock(p)
    \/ WrongPassword(p)
    \/ RightPassword(p)
    \/ SessionInsert(p)
    \/ SessionSelect(p)
    \/ Return(p)

NextLock == \E p \in SeqProcs : LockStep(p)

SpecLock == InitLock /\ [][NextLock]_vars

\* ------------------------------------------------- one login, start to end

\* login, run with no other request between its store requests and with
\* every request answered: the users table after from_username and
\* authenticate for (name, password) at time t.
SeqLogin(tbl, name, password, t) ==
    LET u0 == tbl[name]
        clears == is_locked(u0) /\ ~unlock_returns_early(u0, t)
        u1 == IF clears THEN unlocked(u0) ELSE u0
        t1 == IF clears THEN save_changes(tbl, u1) ELSE tbl
        u2 == incremented(u1)
    IN  IF check_password(u1, password) THEN save_changes(t1, reset(u1))
        ELSE IF must_lock(u2) THEN save_changes(t1, locked(u2, t))
        ELSE t1

\* ------------------------------------------------ run and the REST server

Signals == {"SIGINT", "SIGTERM"}

\* The server task has completed: start_rest_server returned Ok or Err.
Completed(t) == t \in {"stopped", "failed"}

\* The operating system delivers a signal while run waits in its select!.
Signal(s) ==
    /\ run_pc = "select"
    /\ sig = "none"
    /\ sig' = s
    /\ UNCHANGED <<timevars, run_pc, server, chan, adminvars, lockouts, now, ticks, users,
                   sessions, nextId, pc, req, user, found, result, session,
                   calls, before, wrongs, tokens, token>>

\* run, the branch `_ = rest_server_task => {}` of select!: the server task
\* has completed; run returns Ok(()) and drops tx.
RunServerCompleted ==
    /\ run_pc = "select"
    /\ Completed(server)
    /\ run_pc' = "returned"
    /\ chan' = IF chan = "open" THEN "dropped" ELSE chan
    /\ UNCHANGED <<timevars, server, sig, adminvars, lockouts, now, ticks, users, sessions,
                   nextId, pc, req, user, found, result, session, calls,
                   before, wrongs, tokens, token>>

\* run, the branches `_ = sigint.recv()` and `_ = sigterm.recv()`:
\* `let _ = tx.send(());` (an Err, when the receiver is gone, is ignored),
\* select! ends and run returns Ok(()).  The JoinHandle of the server task
\* was moved into select! and is dropped with it: nothing awaits the task.
RunSignalled ==
    /\ run_pc = "select"
    /\ sig # "none"
    /\ chan' = IF Completed(server) THEN "dropped" ELSE "sent"
    /\ run_pc' = "returned"
    /\ UNCHANGED <<timevars, server, sig, adminvars, lockouts, now, ticks, users, sessions,
                   nextId, pc, req, user, found, result, session, calls,
                   before, wrongs, tokens, token>>

\* start_rest_server: the listener is bound and axum::serve is awaited.
ServerStarts ==
    /\ server = "starting"
    /\ server' = "serving"
    /\ UNCHANGED <<timevars, run_pc, chan, sig, adminvars, lockouts, now, ticks, users,
                   sessions, nextId, pc, req, user, found, result, session,
                   calls, before, wrongs, tokens, token>>

\* start_rest_server: TcpListener::bind fails (`?`), or `server.await`
\* returns an Err; so does the task.
ServerFails ==
    /\ server \in {"starting", "serving"}
    /\ server' = "failed"
    /\ UNCHANGED <<timevars, run_pc, chan, sig, adminvars, lockouts, now, ticks, users, sessions,
                   nextId, pc, req, user, found, result, session, calls,
                   before, wrongs, tokens, token>>

\* A shutdown future that never completes.
shutdown_requested_never(c) == FALSE

\* `rx.await.ok()`: the receiver completes once the message was sent, also
\* when that was before it was first polled, or once the sender is dropped.
shutdown_requested(c) == c \in {"sent", "dropped"}

\* with_graceful_shutdown: the shutdown future has completed; the server
\* stops accepting requests.
ServerShutdown ==
    /\ server = "serving"
    /\ shutdown_requested(chan)
    /\ server' = "draining"
    /\ UNCHANGED <<timevars, run_pc, chan, sig, adminvars, lockouts, now, ticks, users, sessions,
                   nextId, pc, req, user, found, result, session, calls,
                   before, wrongs, tokens, token>>

\* The graceful shutdown ends when no request is in flight: `server.await`
\* returns Ok and start_rest_server returns Ok(()).
ServerStopped ==
    /\ server = "draining"
    /\ \A p \in SeqProcs : pc[p] = "idle"
    /\ server' = "stopped"
    /\ UNCHANGED <<timevars, run_pc, chan, sig, adminvars, lockouts, now, ticks, users, sessions,
                   nextId, pc, req, user, found, result, session, calls,
                   before, wrongs, tokens, token>>

\* main: run has returned, main logs and returns; the tokio runtime is
\* dropped and cancels the tasks that have not completed.
Exit ==
    /\ run_pc = "returned"
    /\ run_pc' = "exited"
    /\ server' = IF Completed(server) THEN server ELSE "aborted"
    /\ UNCHANGED <<timevars, chan, sig, adminvars, lockouts, now, ticks, users, sessions,
                   nextId, pc, req, user, found, result, session, calls,
                   before, wrongs, tokens, token>>

\* One step of a login request in the server task: the server accepts a
\* request while it serves, and goes on with one in flight while it drains.
Serve(p) ==
    /\ run_pc # "exited"
    /\ server \in {"serving", "draining"}
    /\ pc[p] = "idle" => server = "serving"
    /\ \/ FromUsername(p)
       \/ LockCheckPass(p)
       \/ WrongPassword(p)
       \/ RightPassword(p)
       \/ SessionInsert(p)
       \/ SessionSelect(p)
       \/ Return(p)

\* The process: run, the server task with its requests, signals, and exit.
NextRun ==
    \/ \E s \in Signals : Signal(s)
    \/ RunServerCompleted
    \/ RunSignalled
    \/ ServerStarts
    \/ ServerFails
    \/ ServerShutdown
    \/ ServerStopped
    \/ Exit
    \/ \E p \in SeqProcs : Serve(p)

SpecRun == Init /\ [][NextRun]_vars

\* The holder of the sender sends the shutdown message: `tx.send(())`,
\* before or after the server has started serving.
Send ==
    /\ chan = "open"
    /\ chan' = IF Completed(server) THEN "dropped" ELSE "sent"
    /\ UNCHANGED <<timevars, run_pc, server, sig, adminvars, lockouts, now, ticks,
                   users, sessions, nextId, pc, req, user, found, result,
                   session, calls, before, wrongs, tokens, token>>

\* A request in flight goes on.
InFlightStep(p) == pc[p] # "idle" /\ Serve(p)

\* start_rest_server awaited by its caller, with the sender in other hands.
NextServer ==
    \/ Send
    \/ ServerStarts
    \/ ServerFails
    \/ ServerShutdown
    \/ ServerStopped
    \/ \E p \in SeqProcs : Serve(p)

\* The runtime keeps polling the awaited server future and the requests it
\* has accepted: each of their steps that stays possible is taken.
SpecServer ==
    /\ Init
    /\ [][NextServer]_vars
    /\ WF_vars(ServerStarts)
    /\ WF_vars(ServerShutdown)
    /\ WF_vars(ServerStopped)
    /\ \A p \in SeqProcs : WF_vars(InFlightStep(p))

\* -------------------------------------------------------- users and plans

PlanNames == {"budget", "trip"}

\* An Insertable that also names the invalid_login_attempts column.
NewUser_counting(username, password) ==
    [id |-> username, pw_hash |-> password, invalid_login_attempts |-> 1]

\* NewUser, the Insertable of User::new: the columns its INSERT names (the
\* model identifies a user by the username; the password is stored as is).
NewUser(username, password) ==
    [id |-> username, pw_hash |-> password]

\* The defaults of the users columns that an INSERT does not name.
UsersColumnDefaults ==
    [invalid_login_attempts |-> 0,
     lock_duration_s |-> DefaultLockDurationS,
     lock_duration_factor |-> DefaultLockDurationFactor,
     lock_duration_cap_s |-> DefaultLockDurationCapS,
     locked_until |-> None]

\* insert_into(users).values(&new_user).get_result: the row that results,
\* the named columns as given and every other column at its default.
InsertedUser(named) ==
    [f \in DOMAIN NoUser |->
        IF f \in DOMAIN named THEN named[f] ELSE UsersColumnDefaults[f]]

\* The users table lets a username be used once.
username_taken(tbl, username) == tbl[username] # NoUser

\* NewPlan, the Insertable of Plan::new.
NewPlan(name, user_id) == [name |-> name, user_id |-> user_id]

\* The plans table lets a user have one plan of a name.
unique_violation(tbl, row) ==
    \E i \in 1..Len(tbl) :
        tbl[i].name = row.name /\ tbl[i].user_id = row.user_id

\* An insert whose rejection by the table is not reported.
insert_result_swallowed(ok, rejected) ==
    IF ok THEN "Ok" ELSE "DieselError"

\* `.get_result(conn).map_err(|e| AppError::Diesel(e))` of User::new and
\* Plan::new: the store failed, the table rejected the row, or the row is
\* returned.
insert_result(ok, rejected) ==
    CASE ~ok -> "DieselError"
      [] ok /\ rejected -> "DieselUniqueViolation"
      [] OTHER -> "Ok"

\* alice is registered, bob is not yet; there are no plans.
InitAdmin ==
    InitStore([u \in Users |-> IF u = "alice" THEN NewUserRow(u) ELSE NoUser],
              {})

\* User::new(conn, username, password).
UserNew(username, password) ==
    \E ok \in BOOLEAN :
        LET r == insert_result(ok, username_taken(users, username))
            row == InsertedUser(NewUser(username, password))
        IN  /\ users' = IF r = "Ok" THEN [users EXCEPT ![username] = row]
                        ELSE users
            /\ out' = [op |-> "UserNew", user_id |-> "none",
                       name |-> username, result |-> r,
                       user |-> IF r = "Ok" THEN row ELSE NoUser,
                       deleted |-> FALSE, list |-> <<>>]
            /\ UNCHANGED <<timevars, plans, runvars, lockouts, now, ticks, sessions, nextId, pc,
                           req, user, found, result, session, calls, before,
                           wrongs, tokens, token>>

\* Plan::new(conn, name, user_id), for the id of a registered user.
PlanNew(user_id, name) ==
    /\ users[user_id] # NoUser
    /\ \E ok \in BOOLEAN :
        LET row == NewPlan(name, user_id)
            r == insert_result(ok, unique_violation(plans, row))
        IN  /\ plans' = IF r = "Ok" THEN Append(plans, row) ELSE plans
            /\ out' = [op |-> "PlanNew", user_id |-> user_id, name |-> name,
                       result |-> r, user |-> NoUser, deleted |-> FALSE, list |-> <<>>]
    /\ UNCHANGED <<timevars, users, runvars, lockouts, now, ticks, sessions, nextId, pc, req,
                   user, found, result, session, calls, before, wrongs,
                   tokens, token>>

\* Plan::delete(conn, name, user_id): Ok(rows > 0).
PlanDelete(user_id, name) ==
    /\ users[user_id] # NoUser
    /\ \E ok \in BOOLEAN :
        LET matches(r) == r.name = name /\ r.user_id = user_id
            others(r) == ~matches(r)
        IN  /\ plans' = IF ok THEN SelectSeq(plans, others) ELSE plans
            /\ out' = [op |-> "PlanDelete", user_id |-> user_id,
                       name |-> name,
                       result |-> IF ok THEN "Ok" ELSE "DieselError",
                       user |-> NoUser,
                       deleted |-> ok /\ SelectSeq(plans, matches) # <<>>,
                       list |-> <<>>]
    /\ UNCHANGED <<timevars, users, runvars, lockouts, now, ticks, sessions, nextId, pc, req,
                   user, found, result, session, calls, before, wrongs,
                   tokens, token>>

\* The plans of a user in the order of the table.
PlansOf(tbl, user_id) ==
    LET mine(r) == r.user_id = user_id IN SelectSeq(tbl, mine)

\* The orders in which a query with no ORDER BY may return the rows rows:
\* which one is for the store to choose.
Orders(rows) ==
    {l \in [1..Len(rows) -> {rows[i] : i \in 1..Len(rows)}] :
        \A i \in 1..Len(rows) : \E j \in 1..Len(rows) : l[j] = rows[i]}

\* Plan::get_all(conn, user_id):
\* plans.filter(user_id.eq(user_id)).load, with no ORDER BY.
PlanGetAll(user_id) ==
    /\ users[user_id] # NoUser
    /\ \E ok \in BOOLEAN :
        \E l \in IF ok THEN Orders(PlansOf(plans, user_id)) ELSE {<<>>} :
            out' = [op |-> "PlanGetAll", user_id |-> user_id,
                    name |-> "none",
                    result |-> IF ok THEN "Ok" ELSE "DieselError",
                    user |-> NoUser, deleted |-> FALSE, list |-> l]
    /\ UNCHANGED <<timevars, users, plans, runvars, lockouts, now, ticks, sessions, nextId, pc,
                   req, user, found, result, session, calls, before, wrongs,
                   tokens, token>>

\* A delete that removes no row.
without_user_kept(tbl, id) == tbl

\* diesel::delete(users.filter(id.eq(id))): the users table afterwards.
without_user(tbl, id) == [tbl EXCEPT ![id] = NoUser]

\* A plans row refers to the user.
referenced(tbl, user_id) == PlansOf(tbl, user_id) # <<>>

\* User::delete(conn, id): Ok(()) also when no row had the id.  For a user
\* that plans refer to, the table either refuses the delete or deletes the
\* plans of the user with it.
UserDelete(id) ==
    /\ \E ok \in BOOLEAN, cascades \in BOOLEAN :
        LET refused == referenced(plans, id) /\ ~cascades
            theirs(r) == r.user_id # id
        IN  /\ referenced(plans, id) \/ cascades
            /\ users' = IF ok /\ ~refused THEN without_user(users, id)
                        ELSE users
            /\ plans' = IF ok /\ ~refused THEN SelectSeq(plans, theirs)
                        ELSE plans
            /\ out' = [op |-> "UserDelete", user_id |-> id, name |-> id,
                       result |-> CASE ~ok -> "DieselError"
                                    [] ok /\ refused ->
                                         "DieselForeignKeyViolation"
                                    [] OTHER -> "Ok",
                       user |-> NoUser, deleted |-> FALSE, list |-> <<>>]
    /\ UNCHANGED <<timevars, runvars, lockouts, now, ticks, sessions, nextId, pc, req, user,
                   found, result, session, calls, before, wrongs, tokens,
                   token>>

\* User::from_username(conn, username) and User::from_id(conn, id): the
\* row, or Err(AppError::Diesel(e)) when the query failed or first() found
\* none.  (The model identifies a user by the username.)
UserLookup(op, key) ==
    /\ \E ok \in BOOLEAN :
        LET hit == ok /\ users[key] # NoUser IN
        out' = [op |-> op, user_id |-> key, name |-> key,
                result |-> IF hit THEN "Ok" ELSE DieselErr(ok),
                user |-> IF hit THEN users[key] ELSE NoUser,
                deleted |-> FALSE, list |-> <<>>]
    /\ UNCHANGED <<timevars, users, plans, runvars, lockouts, now, ticks, sessions, nextId, pc,
                   req, user, found, result, session, calls, before, wrongs,
                   tokens, token>>

Lookups == {"UserFromUsername", "UserFromId"}

\* Calls on users and plans, one at a time.
NextAdmin ==
    \/ \E username \in Users, password \in Passwords :
          UserNew(username, password)
    \/ \E user_id \in Users, name \in PlanNames : PlanNew(user_id, name)
    \/ \E user_id \in Users, name \in PlanNames : PlanDelete(user_id, name)
    \/ \E user_id \in Users : PlanGetAll(user_id)
    \/ \E id \in Users : UserDelete(id)
    \/ \E op \in Lookups, key \in Users : UserLookup(op, key)

SpecAdmin == InitAdmin /\ [][NextAdmin]_vars

\* ------------------------------------- token validations side by side

\* The token of alice's login of the day before: its session row is in the
\* store and expires now, the token's exp is still within decode's leeway.
OldClaims == ClaimsFrom(OldSessionRow, OldSessionRow.created_at)

InitVal ==
    InitAll([u \in Users |-> NewUserRow(u)], {OldSessionRow}, {OldClaims})

\* One step of Session::from_token in handler p.
Validate(p) ==
    \/ FromToken(p)
    \/ SessionSelect(p)
    \/ SessionDelete(p)
    \/ Return(p)

\* Two handlers validate tokens at the same time.
NextVal == \E p \in Procs : Validate(p)

SpecVal == InitVal /\ [][NextVal]_vars

\* --------------------------------------------- the routes with two users

\* The session row and the token of bob's login at time 0.
BobSessionRow == NewSessionRow(0, "bob", 0)

\* bob has logged in and holds his token; alice has not yet.
InitCross ==
    InitAll([u \in Users |-> NewUserRow(u)], {BobSessionRow},
            {ClaimsFrom(BobSessionRow, 0)})

SpecCross == InitCross /\ [][NextTok]_vars

\* ================================================================ claims

RowOf(p) == users[user[p].id]

\* The call of handler p entered authenticate on a User locked until a time
\* that is still ahead, and the stored row carries that lock.
EnteredLocked(p) ==
    /\ pc[p] # "idle"
    /\ is_locked(before[p])
    /\ before[p].locked_until > now
    /\ RowOf(p).locked_until = before[p].locked_until

\* C1: a user whose locked-until is set and lies in the future gets Locked
\* from authenticate whatever the password: the call never reaches the
\* credential check, never returns WrongCredentials or a session, and never
\* reaches the insert of a session row.
C1_LockedUserGetsLocked ==
    \A p \in Procs :
        EnteredLocked(p) =>
            \/ pc[p] = "lockcheck"
            \/ pc[p] = "done" /\ result[p] = "Locked"

\* C2: from the default row with 0 attempts, the third consecutive
\* wrong-password login request leaves the stored user locked until the
\* time of that failure plus 120 seconds.
C2_ThirdFailureLocksFor120s ==
    [][\A u \in Users :
          (wrongs[u] = 2 /\ wrongs'[u] = 3) =>
              users'[u].locked_until = now + 120]_vars

\* C3: a wrong-password authenticate on an unlocked user whose stored
\* attempts are below 2 fails with WrongCredentials, raises the stored
\* attempts by exactly 1 and leaves the stored locked-until unset.
C3_FailureBelowThresholdIsPersisted ==
    [][\A p \in Procs :
          ( /\ pc[p] = "cred" /\ pc'[p] = "done"
            /\ ~check_password(user[p], req[p].password)
            /\ user[p] = RowOf(p)
            /\ ~is_locked(RowOf(p))
            /\ RowOf(p).invalid_login_attempts < 2 )
          => /\ result'[p] = "WrongCredentials"
             /\ users'[user[p].id].invalid_login_attempts
                    = RowOf(p).invalid_login_attempts + 1
             /\ users'[user[p].id].locked_until = None]_vars

\* C4: a login for a username with no row fails with WrongCredentials, the
\* kind a wrong password gives, whenever the store answered the query.
C4_UnknownUserIsWrongCredentials ==
    \A p \in Procs :
        (pc[p] = "done" /\ req[p].username \notin Users
         /\ result[p] # "DieselError")
        => result[p] = "WrongCredentials"

\* C5: authenticate with the correct password returns a session of the user
\* unless a store request failed, whatever session rows the store holds.
C5_RightPasswordGetsSession ==
    \A p \in Procs :
        (pc[p] = "done" /\ user[p] # NoUser
         /\ check_password(user[p], req[p].password)
         /\ result[p] \notin {"DieselError", "Locked"})
        => /\ result[p] = "Ok"
           /\ session[p].user_id = user[p].id

\* C6: when a login has succeeded the stored invalid-login-attempts of the
\* user are 0, whatever the count was when authenticate was entered.
C6_SuccessResetsStoredAttempts ==
    \A p \in Procs :
        (pc[p] = "done" /\ result[p] = "Ok")
        => RowOf(p).invalid_login_attempts = 0

\* C6 witness: a login succeeded on a User that entered authenticate with a
\* count above 0, and the stored count is 0.
C6_Witness ==
    \E p \in Procs :
        /\ pc[p] = "done" /\ result[p] = "Ok"
        /\ before[p].invalid_login_attempts > 0
        /\ RowOf(p).invalid_login_attempts = 0

\* The step at which a login is accepted (the reset and its save) leaves
\* the stored attempts at 0, also between the requests of another handler.
ResetStepStoresZero ==
    [][\A p \in Procs :
          (pc[p] = "cred" /\ pc'[p] = "insert")
          => users'[user[p].id].invalid_login_attempts = 0]_vars

\* C7: unlock on a user (as stored) whose locked-until is set and at or
\* before the current time, when it returns Ok, has cleared locked-until and reset the
\* attempts to 0 in memory and in the stored row.
C7_ExpiredLockIsCleared ==
    [][\A p \in Procs :
          ( /\ pc[p] = "lockcheck" /\ pc'[p] = "cred"
            /\ is_locked(user[p])
            /\ user[p].locked_until <= now
            /\ user[p] = RowOf(p) )
          => /\ user'[p].locked_until = None
             /\ user'[p].invalid_login_attempts = 0
             /\ users'[user[p].id].locked_until = None
             /\ users'[user[p].id].invalid_login_attempts = 0]_vars

\* C8: a login attempt made while the lock has not expired leaves the
\* user's state untouched: the in-memory attempts and locked-until are as
\* they were when authenticate was entered, and so is the stored row of a
\* freshly loaded user.
C8_LockedAttemptLeavesStateUntouched ==
    \A p \in Procs :
        (EnteredLocked(p) /\ pc[p] = "done")
        => /\ user[p].invalid_login_attempts = before[p].invalid_login_attempts
           /\ user[p].locked_until = before[p].locked_until
           /\ (calls[p] = 1 => RowOf(p) = before[p])

\* C9: once n wrong-password login requests on a user have all completed,
\* in any interleaving, the stored attempts are at least n or the account
\* is locked.
C9_FailuresAreNotUndercounted ==
    \A u \in Users :
        (wrongs[u] >= 0 /\ \A p \in Procs : ~(InFlight(p) /\ user[p].id = u))
        => \/ users[u].invalid_login_attempts >= wrongs[u]
           \/ is_locked(users[u])

\* C10: a correct-password login and a wrong-password login that both
\* loaded the same row of a user and have both completed leave the stored
\* row as one of the two one-after-the-other orders leaves it.
C10_ConcurrentLoginsSerialize ==
    \A p, q \in Procs :
        ( /\ pc[p] = "done" /\ pc[q] = "done"
          /\ calls[p] = 1 /\ calls[q] = 1
          /\ user[p] # NoUser /\ user[q].id = user[p].id
          /\ before[p] = before[q]
          /\ check_password(user[p], req[p].password)
          /\ ~check_password(user[q], req[q].password)
          /\ result[p] \in {"Ok", "SessionExpired"}
          /\ result[q] = "WrongCredentials" )
        => LET u == user[p].id
               tbl0 == [users EXCEPT ![u] = before[p]]
               rightFirst ==
                   SeqLogin(SeqLogin(tbl0, u, req[p].password, now),
                            u, req[q].password, now)
               wrongFirst ==
                   SeqLogin(SeqLogin(tbl0, u, req[q].password, now),
                            u, req[p].password, now)
           IN  users[u] \in {rightFirst[u], wrongFirst[u]}

\* The unexpired session rows of a user at time t.
ActiveSessionsOf(user_id, t) == {s \in SessionsOf(user_id) : unexpired(s, t)}

\* C11: in every reachable state of the store each user has at most one
\* unexpired session row, whatever logins have succeeded.
C11_AtMostOneActiveSession ==
    \A u \in Users : Cardinality(ActiveSessionsOf(u, now)) <= 1

\* C12: when Session::new returns a session it is the row this call
\* inserted (with one handler, the row with the last id given out): it
\* belongs to the user, is in the store under its id, and expires 24 hours
\* after its creation, also when an earlier row of the user is in the store.
C12_NewReturnsTheInsertedRow ==
    [][\A p \in SeqProcs :
          (pc[p] = "select" /\ pc'[p] = "done" /\ result'[p] = "Ok")
          => /\ session'[p].id = nextId - 1
             /\ session'[p].user_id = user[p].id
             /\ session'[p] \in sessions'
             /\ session'[p].expires_at = session'[p].created_at + SessionTtlS]_vars

\* C18: right after a successful authenticate the user's locked-until is
\* unset, in the in-memory User and in the stored row.
C18_SuccessLeavesUserUnlocked ==
    \A p \in Procs :
        (pc[p] = "done" /\ result[p] = "Ok")
        => /\ ~is_locked(user[p])
           /\ ~is_locked(RowOf(p))

\* A step of handler p inside authenticate.
InAuthenticate(p) == pc[p] \in {"lockcheck", "cred", "insert", "select", "delete"}

\* The step of handler p clears the lock of its User.
ClearsLock(p) == is_locked(user[p]) /\ ~is_locked(user'[p])

\* The step of handler p is the right-password branch of authenticate.
AcceptsPassword(p) == pc[p] = "cred" /\ check_password(user[p], req[p].password)

HoldsIssuedToken(p) ==
    /\ token[p] # NoToken
    /\ token[p].sig
    /\ \E c \in tokens : token[p] = Signed(c)

\* C13: from_token on the token made from the session that Session::new
\* returned, called before that session expires and answered by the store,
\* returns a session with the same user_id.
C13_TokenRoundTrip ==
    \A p \in Procs :
        ( /\ HoldsIssuedToken(p)
          /\ pc[p] = "done"
          /\ now < token[p].exp
          /\ result[p] # "DieselError" )
        => /\ result[p] \in {"Ok", "LoggedOut"}
           /\ session[p].user_id = token[p].user_id

\* C14: from_token on an issued token whose session has passed its
\* expires_at (the exp of the token), when the store answers, fails with
\* SessionExpired and leaves no row of that session in the store.
C14_ExpiredSessionIsPurged ==
    [][\A p \in Procs :
          ( /\ pc[p] # "done" /\ pc'[p] = "done"
            /\ HoldsIssuedToken(p)'
            /\ now >= token'[p].exp
            /\ result'[p] # "DieselError" )
          => /\ result'[p] = "SessionExpired"
             /\ ~\E s \in sessions' :
                    /\ s.user_id = token'[p].user_id
                    /\ s.expires_at = token'[p].exp]_vars

\* C15: a request whose token has a signature that does not verify ends
\* with InvalidToken whatever the claims of the token say, without a
\* lookup in the session store and with the store unchanged.
C15_BadSignatureIsInvalidToken ==
    [][\A p \in Procs :
          (token'[p] # NoToken /\ ~token'[p].sig)
          => /\ pc'[p] = "done"
             /\ result'[p] = "InvalidToken"
             /\ sessions' = sessions]_vars

\* C15 witness: a token with a broken signature whose claims name a user
\* with a live session and an expiry still ahead was refused.
C15_Witness ==
    \E p \in Procs :
        /\ token[p] # NoToken
        /\ ~token[p].sig
        /\ token[p].exp > now
        /\ ActiveSessionsOf(token[p].user_id, now) # {}
        /\ pc[p] = "done"
        /\ result[p] = "InvalidToken"

\* C16: once logout has answered a request, the user of its token has no
\* live session row left, so that the token no longer validates.
C16_LogoutDeletesTheSession ==
    \A p \in Procs :
        (pc[p] = "done" /\ result[p] = "LoggedOut")
        => ActiveSessionsOf(token[p].user_id, now) = {}

\* The session store as it was when handler p, past the insert of
\* Session::new, entered Session::new: with one handler, all rows but the
\* one with the last id given out.
StoreBeforeNew == {s \in sessions : s.id # nextId - 1}

\* C17: when Session::new returns an error the session store is as it was
\* before the call, and when from_token returns an error the store is
\* unchanged but for the deletion of the expired row it read.
C17_SessionFailuresLeaveStoreUntouched ==
    [][\A p \in SeqProcs :
          (pc[p] # "done" /\ pc'[p] = "done" /\ result'[p] # "Ok")
          => /\ (token'[p] = NoToken /\ pc[p] = "insert")
                    => sessions' = sessions
             /\ (token'[p] = NoToken /\ pc[p] \in {"select", "delete"})
                    => sessions' = StoreBeforeNew
             /\ token'[p] # NoToken
                    => \/ sessions' = sessions
                       \/ /\ sessions' = sessions \ {found[p]}
                          /\ ~unexpired(found[p], now)]_vars

\* min(lock-base-duration * lock-duration-factor, lock-duration-cap) over
\* the integers: a product beyond the i32 range is above every cap.
CappedProduct(u) ==
    IF mul_overflows(u) THEN u.lock_duration_cap_s
    ELSE Min(u.lock_duration_s * u.lock_duration_factor, u.lock_duration_cap_s)

\* C20: a wrong-password attempt that brings invalid-login-attempts to 3 or
\* more sets locked-until to the current time plus
\* min(lock-base-duration * lock-duration-factor, lock-duration-cap)
\* seconds, for all non-negative values of the three fields; one that
\* leaves the count below 3 does not set locked-until.
C20_LockFormula ==
    [][\A p \in SeqProcs :
          ( /\ pc[p] = "cred" /\ pc'[p] = "done"
            /\ ~check_password(user[p], req[p].password) )
          => LET u == user[p] IN
             IF u.invalid_login_attempts + 1 >= LockThreshold
             THEN user'[p].locked_until = now + CappedProduct(u)
             ELSE user'[p].locked_until = u.locked_until]_vars

\* C21: a successful login leaves lock-base-duration, lock-duration-factor
\* and lock-duration-cap of the user as they were, in memory and in the
\* store, so that the next lockout lasts as long as one before the login.
C21_SuccessKeepsLockPolicy ==
    \A p \in Procs :
        (pc[p] = "done" /\ result[p] = "Ok")
        => /\ user[p].lock_duration_s = before[p].lock_duration_s
           /\ user[p].lock_duration_factor = before[p].lock_duration_factor
           /\ user[p].lock_duration_cap_s = before[p].lock_duration_cap_s
           /\ lock_duration(RowOf(p)) = lock_duration(before[p])

\* C22: a step that sets a lock at time t leaves t <= locked-until <=
\* t + lock-duration-cap, in the User and in the stored row.
C22_LockWindowIsBounded ==
    [][\A p \in SeqProcs :
          (pc[p] = "cred" /\ is_locked(user'[p])
           /\ user'[p].locked_until # user[p].locked_until)
          => LET u == user[p].id IN
             /\ now <= user'[p].locked_until
             /\ user'[p].locked_until <= now + user[p].lock_duration_cap_s
             /\ users' # users =>
                  /\ now <= users'[u].locked_until
                  /\ users'[u].locked_until <= now + user[p].lock_duration_cap_s]_vars

\* C22 witness: a lock was set on a user whose base times factor exceeds
\* the cap (the factor a successful login leaves), and it lasts the cap.
C22_Witness ==
    \E p \in SeqProcs :
        /\ pc[p] = "done"
        /\ result[p] = "WrongCredentials"
        /\ user[p].lock_duration_factor = ResetLockDurationFactor
        /\ user[p].locked_until = now + user[p].lock_duration_cap_s
        /\ RowOf(p).locked_until = user[p].locked_until

\* C23: a login with the correct password on a user whose locked-until has
\* passed returns a session, whenever the store answered every request.
C23_PassedLockAdmitsLogin ==
    \A p \in Procs :
        ( /\ pc[p] = "done"
          /\ is_locked(before[p])
          /\ before[p].locked_until < now
          /\ check_password(user[p], req[p].password)
          /\ result[p] \notin {"DieselError", "Locked"} )
        => result[p] = "Ok"

\* C25: when the write that persists an unlock, a counter reset or a lock
\* fails, authenticate returns the store error.
C25_FailedWriteIsStoreError ==
    [][\A p \in SeqProcs :
          LET u1 == incremented(user[p]) IN
          /\ (pc[p] = "lockcheck" /\ pc'[p] = "done")
                => result'[p] = "DieselError"
          /\ (AcceptsPassword(p) /\ pc'[p] = "done")
                => result'[p] = "DieselError"
          /\ ( /\ pc[p] = "cred" /\ pc'[p] = "done"
               /\ ~check_password(user[p], req[p].password)
               /\ must_lock(u1)
               /\ result'[p] # "Panic"
               /\ save_changes(users, locked(u1, now)) # users
               /\ users' = users )
                => result'[p] = "DieselError"]_vars

\* C29: every session row in the store has expires-at > created-at.
C29_SessionsExpireAfterCreation ==
    \A s \in sessions : s.expires_at > s.created_at

\* C29 witness: a login has inserted a session row.
C29_Witness ==
    \E s \in sessions : s.id >= 1 /\ s.user_id \in Users

\* C24: the reply to a request whose token failed validation keeps the
\* kind of the failure: an expired session answers SessionExpired and a
\* store failure answers the store error, neither becomes InvalidToken.
C24_ValidationErrorsKeepTheirKind ==
    [][\A p \in SeqProcs :
          ( /\ pc[p] = "done" /\ pc'[p] = "replied"
            /\ token[p] # NoToken
            /\ result[p] \in {"SessionExpired", "DieselError",
                              "DieselNotFound"} )
          => result'[p] = result[p]]_vars

\* C26: the body of the HTTP response to a request that ended in a store
\* error does not contain the raw text of the database error.
C26_StoreErrorBodyHidesDatabaseText ==
    \A p \in Procs :
        (pc[p] = "done" /\ result[p] \in StoreErrors)
        => /\ into_response(result[p]).status = 500
           /\ into_response(result[p]).body.message
                \notin {DieselText(r) : r \in StoreErrors}

\* C27: when run returns after a shutdown signal, it has sent the shutdown
\* message to a server task still running, and the server task has
\* completed by the time run returns.
C27_RunAwaitsServerShutdown ==
    [][(run_pc = "select" /\ run_pc' = "returned" /\ sig # "none")
       => /\ Completed(server) \/ chan' = "sent"
          /\ Completed(server')]_vars

\* C28: the user that User::new returns and the row it stored have
\* invalid-login-attempts 0, lock duration 60 s, lock-duration-factor 2,
\* lock-duration-cap 3600 s and no locked-until: the user is not locked.
C28_NewUserHasDefaultPolicy ==
    (out.op = "UserNew" /\ out.result = "Ok")
    => /\ out.user.invalid_login_attempts = 0
       /\ out.user.lock_duration_s = 60
       /\ out.user.lock_duration_factor = 2
       /\ out.user.lock_duration_cap_s = 3600
       /\ out.user.locked_until = None
       /\ ~is_locked(out.user)
       /\ users[out.name] = out.user

\* C28 witness: User::new has created bob.
C28_Witness ==
    /\ out.op = "UserNew" /\ out.result = "Ok" /\ out.name = "bob"
    /\ users["bob"] # NoUser

\* C30: Plan::new with a name the user already has a plan of returns an
\* error and leaves the plans table as it was.
C30_DuplicatePlanIsRejected ==
    [][(out'.op = "PlanNew"
        /\ unique_violation(plans, NewPlan(out'.name, out'.user_id)))
       => /\ out'.result \in {"DieselError", "DieselUniqueViolation"}
          /\ plans' = plans]_vars

\* C30 witness: a Plan::new was rejected for a name the user has.
C30_Witness ==
    /\ out.op = "PlanNew" /\ out.result = "DieselUniqueViolation"
    /\ unique_violation(plans, NewPlan(out.name, out.user_id))

\* C31: Plan::get_all returns the plans of the user that were created and
\* not deleted since, in the order of their creation, and no plan of
\* another user; Plan::delete returns true iff the user had a plan of
\* that name.
C31_GetAllListsPlansInCreationOrder ==
    [][/\ (out'.op = "PlanGetAll" /\ out'.result = "Ok")
            => out'.list = PlansOf(plans, out'.user_id)
       /\ (out'.op = "PlanDelete" /\ out'.result = "Ok")
            => /\ out'.deleted =
                    unique_violation(plans, NewPlan(out'.name, out'.user_id))
               /\ ~unique_violation(plans', NewPlan(out'.name, out'.user_id))
      ]_vars

\* C32: a successful User::delete removes the row; while the row is absent
\* a lookup of the user returns an error and no User; and only User::new
\* for that username brings the row back.
C32_DeletedUserIsNotFound ==
    [][\A u \in Users :
          /\ (out'.op = "UserDelete" /\ out'.result = "Ok" /\ out'.name = u)
                => users'[u] = NoUser
          /\ (users[u] = NoUser /\ out'.op \in Lookups /\ out'.name = u)
                => out'.result \in StoreErrors /\ out'.user = NoUser
          /\ (users[u] = NoUser /\ users'[u] # NoUser)
                => out'.op = "UserNew" /\ out'.name = u /\ out'.result = "Ok"
      ]_vars

\* C32 witness: alice was deleted and the lookup that followed found no row.
C32_Witness ==
    /\ out.op \in Lookups /\ out.name = "alice"
    /\ out.result = "DieselNotFound"
    /\ users["alice"] = NoUser

\* C33: a lockout that follows an earlier lockout of the account with no
\* accepted password in between lasts at least as long as the earlier one:
\* the earlier duration times lock-duration-factor, up to lock-duration-cap.
C33_BackoffGrows ==
    [][\A p \in SeqProcs :
          LET u1 == incremented(user[p]) IN
          ( /\ pc[p] = "cred" /\ pc'[p] = "done"
            /\ ~check_password(user[p], req[p].password)
            /\ must_lock(u1)
            /\ result'[p] # "Panic"
            /\ lockouts[u1.id] > 0 )
          => /\ lockouts'[u1.id] >= lockouts[u1.id]
             /\ lockouts'[u1.id] =
                  Min(lockouts[u1.id] * u1.lock_duration_factor,
                      u1.lock_duration_cap_s)]_vars

\* C34: a validation that read an expired session row and whose delete the
\* store answered fails with SessionExpired, also when another validation
\* deleted the same row first, and the row is then absent.
C34_ExpiredRowDeleteIsIdempotent ==
    \A p \in Procs :
        (pc[p] = "done" /\ found[p] # NoSession /\ result[p] # "DieselError")
        => /\ result[p] = "SessionExpired"
           /\ found[p] \notin sessions

\* C34 witness: both handlers read the same expired row and both were
\* answered SessionExpired.
C34_Witness ==
    /\ \A p \in Procs :
          /\ pc[p] = "done"
          /\ found[p] = OldSessionRow
          /\ result[p] = "SessionExpired"
    /\ OldSessionRow \notin sessions

\* C35: from_token returns a session only when the store holds, at that
\* moment, an unexpired session row of the user_id in the claims, and it
\* returns that row; with no row of that user it fails, whatever the token.
C35_ValidationNeedsStoredSession ==
    [][\A p \in SeqProcs :
          (token[p] # NoToken /\ pc[p] = "select" /\ pc'[p] # "select")
          => /\ result'[p] = "Ok"
                  => /\ pc'[p] = "done"
                     /\ session'[p] \in sessions
                     /\ session'[p].user_id = token[p].user_id
                     /\ now < session'[p].expires_at
             /\ SessionsOf(token[p].user_id) = {}
                  => /\ pc'[p] = "done"
                     /\ result'[p] \in StoreErrors]_vars

\* C35 witness: a token with a good signature and an exp that decode
\* accepts was refused because the store has no session row of its user.
C35_Witness ==
    \E p \in SeqProcs :
        /\ pc[p] = "done"
        /\ HoldsIssuedToken(p)
        /\ decode(token[p], now)
        /\ SessionsOf(token[p].user_id) = {}
        /\ result[p] = "DieselNotFound"

\* C36: the route behind jwt_auth runs only in a request that carried a
\* token for which from_token returned a session, with that session
\* attached; a request the middleware answers itself is answered
\* InvalidToken and its route does not run.
C36_RouteRunsOnlyWithValidToken ==
    [][\A p \in SeqProcs :
          /\ (result'[p] = "LoggedOut" /\ result[p] # "LoggedOut")
                => /\ pc[p] = "done"
                   /\ token[p] # NoToken
                   /\ result[p] = "Ok"
                   /\ session[p] # NoSession
                   /\ session[p].user_id = token[p].user_id
                   /\ session'[p] = session[p]
          /\ (pc'[p] = "replied" /\ pc[p] # "replied")
                => /\ result'[p] = "InvalidToken"
                   /\ result[p] \notin {"Ok", "LoggedOut"}
          /\ (pc[p] = "replied" /\ pc'[p] # "replied")
                => pc'[p] = "idle"]_vars

\* C36 witness: the route ran for a request with an issued token, and the
\* session of the token's user is attached.
C36_Witness ==
    \E p \in SeqProcs :
        /\ result[p] = "LoggedOut"
        /\ HoldsIssuedToken(p)
        /\ session[p] \in sessions
        /\ session[p].user_id = token[p].user_id

\* C37: a token is issued with the user_id of the user whose password was
\* accepted, and the session from_token returns for an issued token has
\* the user_id of the token, never another user's.
C37_SessionsAreNotCrossed ==
    [][/\ \A c \in tokens' \ tokens :
            \E p \in SeqProcs :
                /\ pc[p] = "done" /\ result[p] = "Ok"
                /\ check_password(users[c.user_id], req[p].password)
                /\ req[p].username = c.user_id
                /\ user[p].id = c.user_id
       /\ \A p \in SeqProcs :
            ( /\ HoldsIssuedToken(p)
              /\ pc[p] = "select" /\ pc'[p] = "done"
              /\ result'[p] = "Ok" )
            => session'[p].user_id = token[p].user_id]_vars

\* C37 witness: alice and bob both have a session row, and from_token
\* returned bob's for bob's token.
C37_Witness ==
    \E p \in SeqProcs :
        /\ pc[p] = "done" /\ result[p] = "Ok"
        /\ HoldsIssuedToken(p)
        /\ token[p].user_id = "bob"
        /\ session[p].user_id = "bob"
        /\ SessionsOf("alice") # {}

\* C38: once the shutdown message has been sent, start_rest_server returns,
\* also when the message was sent before the server started serving.
C38_ServerReturnsAfterShutdownMessage ==
    (chan = "sent" /\ server \in {"starting", "serving", "draining"})
        ~> Completed(server)

\* C38 witness: the message is in the channel and the server has not
\* started serving yet.
C38_Witness ==
    /\ chan = "sent"
    /\ server = "starting"

\* ------------------------------------- utils::serialization: the calls
\* serialize and deserialize are applied to one timestamp: any of
\* DateTimes is given.
InitTime ==
    /\ InitCore([u \in Users |-> NewUserRow(u)], {}, {})
    /\ value \in DateTimes
    /\ text = <<>>
    /\ parsed = NotParsed

\* serialize(&value, serializer)
Serialize ==
    /\ text = <<>>
    /\ text' = serialize(value)
    /\ UNCHANGED <<value, parsed, runvars, adminvars, lockouts, now, ticks,
                   users, sessions, nextId, pc, req, user, found, result,
                   session, calls, before, wrongs, tokens, token>>

\* deserialize(deserializer) on the string serialize wrote
Deserialize ==
    /\ text # <<>>
    /\ parsed = NotParsed
    /\ parsed' = deserialize(text)
    /\ UNCHANGED <<value, text, runvars, adminvars, lockouts, now, ticks,
                   users, sessions, nextId, pc, req, user, found, result,
                   session, calls, before, wrongs, tokens, token>>

NextTime ==
    \/ Serialize
    \/ Deserialize

SpecTime == InitTime /\ [][NextTime]_vars

\* The text has the form YYYY-MM-DD HH:MM:SS: nineteen characters, digits
\* but for the two dashes, the space and the two colons.
fixed_form(s) ==
    /\ Len(s) = 19
    /\ s[5] = "-" /\ s[8] = "-" /\ s[11] = " " /\ s[14] = ":" /\ s[17] = ":"
    /\ \A i \in (1..19) \ {5, 8, 11, 14, 17} : is_digit(s[i])

\* The text has the form of a signed year of at least four digits
\* followed by -MM-DD HH:MM:SS.
signed_form(s) ==
    /\ Len(s) >= 20
    /\ s[1] \in {"-", "+"}
    /\ \A i \in 2..(Len(s) - 15) : is_digit(s[i])
    /\ LET r == SubSeq(s, Len(s) - 14, Len(s)) IN
        /\ r[1] = "-" /\ r[4] = "-" /\ r[7] = " " /\ r[10] = ":" /\ r[13] = ":"
        /\ \A i \in (1..15) \ {1, 4, 7, 10, 13} : is_digit(r[i])

whole_second(t) == t.nanosecond = 0

\* C39 as stated: for every NaiveDateTime with whole-second precision
\* the serialized text has the form YYYY-MM-DD HH:MM:SS and deserializing
\* it gives the NaiveDateTime back.
C39_RoundTripInFixedForm ==
    whole_second(value) =>
        /\ text # <<>> => fixed_form(text)
        /\ parsed # NotParsed => parsed = [state |-> "Ok", value |-> value]

\* C39, amended: for every NaiveDateTime with whole-second precision
\* deserializing the serialized text gives the NaiveDateTime back; the text
\* has the form YYYY-MM-DD HH:MM:SS exactly for the years 0 to 9999, and
\* for any other year the year is written with its sign in front.
C39_RoundTripAndYearForm ==
    whole_second(value) =>
        /\ text # <<>> =>
            /\ fixed_form(text) <=> value.year \in 0..9999
            /\ signed_form(text) <=> value.year \notin 0..9999
        /\ parsed # NotParsed => parsed = [state |-> "Ok", value |-> value]

\* A whole-second timestamp of the year 10000 went through serialize and
\* deserialize.
C39_Witness ==
    /\ whole_second(value)
    /\ value.year > 9999
    /\ signed_form(text)
    /\ parsed = [state |-> "Ok", value |-> value]

====
